---------------------------- MODULE Spec2Model ----------------------------
(***************************************************************************)
(* docs/terminal/fix.py: the post-processor of a recorded terminal         *)
(* session.  The script reads the recording into `lines`, rewrites the     *)
(* prompts in two scans, collapses the "go: added github.com/" records     *)
(* into one ellipsized record and prints everything but the last two       *)
(* lines.                                                                  *)
(*                                                                         *)
(* Text is a sequence of one-character strings.  "LF", "CR" and "ESC"      *)
(* stand for the single control characters U+000A, U+000D and U+001B; a    *)
(* backslash followed by r, n or u001b is the JSON escape as it stands in  *)
(* the raw line.  Python indices are 0-based, the indices here 1-based.    *)
(***************************************************************************)
EXTENDS Integers, Sequences, FiniteSets, TLC

(***************************************************************************)
(* The literals of fix.py.                                                 *)
(***************************************************************************)
\* fix.py:8     '$ "]'
PromptEnd == <<"$", " ", "\"", "]">>
\* fix.py:10    '"\\r\\n"]'
BareNewline == <<"\"", "\\", "r", "\\", "n", "\"", "]">>
\* fix.py:12    '"#"'
HashStr == <<"\"", "#", "\"">>
\* fix.py:11,13,18    "$ "
Prompt == <<"$", " ">>
\* fix.py:13    "\\u001b[39;2m"
Dim == <<"\\", "u", "0", "0", "1", "b", "[", "3", "9", ";", "2", "m">>
\* fix.py:14    "\\r\\n"
EscNewline == <<"\\", "r", "\\", "n">>
\* fix.py:14    "\\r\\n\\u001b[0m"
EscNewlineReset == <<"\\", "r", "\\", "n", "\\", "u", "0", "0", "1", "b", "[", "0", "m">>
\* fix.py:18    "\\u001b[34m$\\u001b[0m "
Blue == <<"\\", "u", "0", "0", "1", "b", "[", "3", "4", "m", "$",
          "\\", "u", "0", "0", "1", "b", "[", "0", "m", " ">>
\* fix.py:25    "go: added github.com/"
Marker == <<"g", "o", ":", " ", "a", "d", "d", "e", "d", " ",
            "g", "i", "t", "h", "u", "b", ".", "c", "o", "m", "/">>
\* fix.py:28,35    "\r\n"
CRLF == <<"CR", "LF">>
\* fix.py:34    "..."
Ellipsis == <<".", ".", ".">>
\* fix.py:36    "\n"
Newline == <<"LF">>

(***************************************************************************)
(* Python's str and list operations used by the script.                    *)
(***************************************************************************)
\* `pat in s`
Contains(s, pat) ==
  \E k \in 1..(Len(s) - Len(pat) + 1) :
    s[k] = pat[1] /\ SubSeq(s, k, k + Len(pat) - 1) = pat

\* the positions where pat occurs in s
Occurrences(s, pat) ==
  {k \in 1..(Len(s) - Len(pat) + 1) :
     s[k] = pat[1] /\ SubSeq(s, k, k + Len(pat) - 1) = pat}

\* s.find(pat) + 1 (0 when pat does not occur)
Find(s, pat) ==
  LET occ == Occurrences(s, pat)
  IN IF occ = {} THEN 0 ELSE CHOOSE k \in occ : \A j \in occ : k <= j

\* s.replace(old, new): every non-overlapping occurrence, left to right
RECURSIVE Replace(_, _, _)
Replace(s, old, new) ==
  LET k == Find(s, old)
  IN IF k = 0 THEN s
     ELSE SubSeq(s, 1, k - 1) \o new \o Replace(SubSeq(s, k + Len(old), Len(s)), old, new)

\* s.split(sep)
RECURSIVE Split(_, _)
Split(s, sep) ==
  LET k == Find(s, sep)
  IN IF k = 0 THEN <<s>>
     ELSE <<SubSeq(s, 1, k - 1)>> \o Split(SubSeq(s, k + Len(sep), Len(s)), sep)

\* sep.join(parts)
RECURSIVE Join(_, _)
Join(parts, sep) ==
  IF parts = <<>> THEN <<>>
  ELSE IF Len(parts) = 1 THEN parts[1]
       ELSE parts[1] \o sep \o Join(Tail(parts), sep)

\* "".join(parts)
Concat(parts) == Join(parts, <<>>)

Min(a, b) == IF a < b THEN a ELSE b
Max(a, b) == IF a > b THEN a ELSE b

\* the slice bounds of fix.py:34 and fix.py:41
SliceLen == 3
TrimLen == 2

\* packages[:3]: a slice clamps to the list, it never raises
FirstThree(p) == SubSeq(p, 1, Min(SliceLen, Len(p)))

\* packages[-3:]
LastThree(p) == SubSeq(p, Max(1, Len(p) - SliceLen + 1), Len(p))

\* lines[:-1] (faulty variant of lines[:-2])
DropLastOne(ls) == SubSeq(ls, 1, Max(0, Len(ls) - 1))

\* lines[:-2]
DropLastTwo(ls) == SubSeq(ls, 1, Max(0, Len(ls) - TrimLen))

\* removing element k of a list (del lines[k])
DeleteAt(ls, k) == SubSeq(ls, 1, k - 1) \o SubSeq(ls, k + 1, Len(ls))

\* reversed(s)
Reversed(s) == [k \in 1..Len(s) |-> s[Len(s) + 1 - k]]


(***************************************************************************)
(* json.loads and json.dumps on the JSON texts a recording line can hold:  *)
(* a string, or an array of strings, with the escapes \" \\ \/ \b \f \n    *)
(* \r \t and \u001b (the only \u escape the script writes).  Any other     *)
(* text is rejected, as json.loads rejects a text that is not JSON.        *)
(***************************************************************************)
Whitespace == {" ", "LF", "CR", "TAB"}
ControlChars == {"LF", "CR", "ESC", "TAB", "BS", "FF"}

\* the result of a failed decode (json.JSONDecodeError)
Fail == [ok |-> FALSE, val |-> <<>>, next |-> 0]

\* the decoder's whitespace skip: the first position >= p that holds no whitespace
RECURSIVE SkipWs(_, _)
SkipWs(s, p) ==
  IF p <= Len(s) /\ s[p] \in Whitespace THEN SkipWs(s, p + 1) ELSE p

\* the character an escape letter stands for ("" when the escape is invalid)
Unescape(c) ==
  CASE c = "\"" -> "\""
    [] c = "\\" -> "\\"
    [] c = "/" -> "/"
    [] c = "b" -> "BS"
    [] c = "f" -> "FF"
    [] c = "n" -> "LF"
    [] c = "r" -> "CR"
    [] c = "t" -> "TAB"
    [] OTHER -> ""

\* the least element of a non-empty set of positions
Least(S) == CHOOSE k \in S : \A j \in S : k <= j

\* a decoded prefix put before the decoding r of the rest
Prepend(prefix, r) == [ok |-> r.ok, val |-> prefix \o r.val]

\* the text of a JSON string body with its escapes decoded, k being the
\* position of its first backslash (0 when it has none); ok is FALSE on an
\* invalid escape
RECURSIVE DecodeAt(_, _)
DecodeAt(body, k) ==
  IF k = 0 THEN [ok |-> TRUE, val |-> body]
  ELSE IF k + 1 > Len(body) THEN [ok |-> FALSE, val |-> <<>>]
  ELSE IF body[k + 1] = "u"
       THEN IF SubSeq(body, k + 2, k + 5) = <<"0", "0", "1", "b">>
            THEN Prepend(SubSeq(body, 1, k - 1) \o <<"ESC">>,
                         DecodeAt(SubSeq(body, k + 6, Len(body)),
                                  Find(SubSeq(body, k + 6, Len(body)), <<"\\">>)))
            ELSE [ok |-> FALSE, val |-> <<>>]
  ELSE IF Unescape(body[k + 1]) = "" THEN [ok |-> FALSE, val |-> <<>>]
  ELSE Prepend(SubSeq(body, 1, k - 1) \o <<Unescape(body[k + 1])>>,
               DecodeAt(SubSeq(body, k + 2, Len(body)),
                        Find(SubSeq(body, k + 2, Len(body)), <<"\\">>)))

Decode(body) == DecodeAt(body, Find(body, <<"\\">>))

\* the closing quotes of the string body that starts at p: a quote preceded
\* (from p on) by an even number of backslashes
Closers(s, p) ==
  {q \in p..Len(s) :
     /\ s[q] = "\""
     /\ Cardinality({t \in p..(q - 1) : \A u \in t..(q - 1) : s[u] = "\\"}) % 2 = 0}

\* the string whose raw body is `body` and whose closing quote stands at q
StrValue(body, q, acc) ==
  IF Decode(body).ok /\ \A k \in 1..Len(body) : body[k] \notin ControlChars
  THEN [ok |-> TRUE, val |-> acc \o Decode(body).val, next |-> q + 1]
  ELSE Fail

\* the string that ends at the closing quote q
StrUpTo(s, p, q, acc) == StrValue(SubSeq(s, p, q - 1), q, acc)

\* the body of a JSON string from position p (after the opening quote)
StrBody(s, p, acc) ==
  IF Closers(s, p) = {} THEN Fail ELSE StrUpTo(s, p, Least(Closers(s, p)), acc)

RECURSIVE Elems(_, _, _)

\* after an element: a comma and the next element, or the closing bracket
Separator(s, q, acc) ==
  IF q > Len(s) THEN Fail
  ELSE IF s[q] = "," THEN Elems(s, SkipWs(s, q + 1), acc)
  ELSE IF s[q] = "]" THEN [ok |-> TRUE, val |-> acc, next |-> q + 1]
  ELSE Fail

\* the array whose next element decoded to r
AfterElem(s, r, acc) ==
  IF ~r.ok THEN Fail ELSE Separator(s, SkipWs(s, r.next), Append(acc, r.val))

\* the elements of a JSON array from position p (the first character of an element)
Elems(s, p, acc) ==
  IF p > Len(s) \/ s[p] # "\"" THEN Fail
  ELSE AfterElem(s, StrBody(s, p + 1, <<>>), acc)

\* the array body from position q (after the opening bracket and whitespace)
ListBody(s, q) ==
  IF q <= Len(s) /\ s[q] = "]"
  THEN [ok |-> TRUE, val |-> <<>>, next |-> q + 1]
  ELSE Elems(s, q, <<>>)

\* the decoded value r with its Python type
Typed(kind, r) == [ok |-> r.ok, kind |-> kind, val |-> r.val, next |-> r.next]

\* a JSON value at position p
Value(s, p) ==
  IF p > Len(s) THEN [ok |-> FALSE, kind |-> "None", val |-> <<>>, next |-> 0]
  ELSE IF s[p] = "\"" THEN Typed("str", StrBody(s, p + 1, <<>>))
  ELSE IF s[p] = "[" THEN Typed("list", ListBody(s, SkipWs(s, p + 1)))
  ELSE [ok |-> FALSE, kind |-> "None", val |-> <<>>, next |-> 0]

\* the value v when only whitespace follows it in s
Whole(s, v) ==
  IF v.ok /\ SkipWs(s, v.next) > Len(s)
  THEN [ok |-> TRUE, kind |-> v.kind, val |-> v.val]
  ELSE [ok |-> FALSE, kind |-> "None", val |-> <<>>]

\* json.loads(s): ok is FALSE where json.loads raises JSONDecodeError
Loads(s) == Whole(s, Value(s, SkipWs(s, 1)))

\* the JSON escape of one character (ensure_ascii)
Escape(c) ==
  CASE c = "\"" -> <<"\\", "\"">>
    [] c = "\\" -> <<"\\", "\\">>
    [] c = "LF" -> <<"\\", "n">>
    [] c = "CR" -> <<"\\", "r">>
    [] c = "TAB" -> <<"\\", "t">>
    [] c = "BS" -> <<"\\", "b">>
    [] c = "FF" -> <<"\\", "f">>
    [] c = "ESC" -> <<"\\", "u", "0", "0", "1", "b">>
    [] OTHER -> <<c>>

\* the characters json.dumps escapes
Escaped == ControlChars \cup {"\"", "\\"}

\* the body of the JSON string for e
RECURSIVE DumpBody(_)
DumpBody(e) ==
  LET esc == {k \in 1..Len(e) : e[k] \in Escaped}
  IN IF esc = {} THEN e
     ELSE LET k == CHOOSE c \in esc : \A d \in esc : c <= d
          IN SubSeq(e, 1, k - 1) \o Escape(e[k]) \o DumpBody(SubSeq(e, k + 1, Len(e)))

\* json.dumps of a string
DumpStr(e) == <<"\"">> \o DumpBody(e) \o <<"\"">>

\* json.dumps(row) of a list of strings: the item separator is ", "
Dumps(row) ==
  <<"[">> \o Join([k \in 1..Len(row.val) |-> DumpStr(row.val[k])], <<",", " ">>) \o <<"]">>

(***************************************************************************)
(* The statements of fix.py as operators on one line or one value.         *)
(***************************************************************************)
\* fix.py:8-14 with the dimming applied to the line as loaded (faulty variant)
FirstScanLineOverwrite(cur, hasNext, nxt) ==
  LET a == IF Contains(nxt, BareNewline) THEN Replace(cur, Prompt, <<>>) ELSE cur
      b == IF Contains(nxt, HashStr) THEN Replace(cur, Prompt, Dim) ELSE a
      c == IF Contains(cur, PromptEnd) /\ hasNext THEN b ELSE cur
  IN Replace(c, EscNewline, EscNewlineReset)

\* fix.py:8-14: the body of the first loop for lines[i] = cur and, when
\* i < len(lines) - 1, lines[i+1] = nxt
FirstScanLine(cur, hasNext, nxt) ==
  LET a == IF Contains(nxt, BareNewline) THEN Replace(cur, Prompt, <<>>) ELSE cur
      b == IF Contains(nxt, HashStr) THEN Replace(a, Prompt, Dim) ELSE a
      c == IF Contains(cur, PromptEnd) /\ hasNext THEN b ELSE cur
  IN Replace(c, EscNewline, EscNewlineReset)

\* fix.py:18 with the reset written after the blank (faulty variant)
ColorizeLineLate(l) ==
  Replace(l, Prompt, <<"\\", "u", "0", "0", "1", "b", "[", "3", "4", "m", "$", " ",
                       "\\", "u", "0", "0", "1", "b", "[", "0", "m">>)

\* fix.py:18: the body of the second loop
ColorizeLine(l) == Replace(l, Prompt, Blue)

\* fix.py:25 matching only the lines that decode (faulty variant)
IsDecodablePackageLine(l) == Contains(l, Marker) /\ Loads(l).ok

\* fix.py:25: the test of the third loop
IsPackageLine(l) == Contains(l, Marker)

\* fix.py:27-28: the exception json.loads(l) or data[2] raises, "None" when
\* neither does (data[2] of a str is its third character)
Raises(l) ==
  IF ~Loads(l).ok THEN "JSONDecodeError"
  ELSE IF Len(Loads(l).val) < 3 THEN "IndexError"
  ELSE "None"

\* fix.py:28: data[2]
Element2(data) == IF data.kind = "str" THEN <<data.val[3]>> ELSE data.val[3]

\* fix.py:33: the truth value of package_row (None, "" and [] are false)
Truthy(row) == row.kind # "None" /\ Len(row.val) > 0

\* fix.py:34 with the tail slice left out (faulty variant)
EllipsizeHead(p) == FirstThree(p) \o <<Ellipsis>>

\* fix.py:34: packages[:3] + ["..."] + packages[-3:]
Ellipsize(p) == FirstThree(p) \o <<Ellipsis>> \o LastThree(p)

\* fix.py:38-39 left out (faulty variant)
DeleteOrderNone(del) == <<>>

\* fix.py:38 without reversed() (faulty variant)
DeleteOrderForward(del) == IF del = <<>> THEN <<>> ELSE Tail(del)

\* fix.py:38: reversed(package_del[1:])
DeleteOrder(del) == IF del = <<>> THEN <<>> ELSE Reversed(Tail(del))

\* fix.py:41 joining lines (faulty variant)
PrintedAll(ls) == Concat(ls) \o Newline

\* fix.py:41 joining lines[:-1] (faulty variant)
PrintedShort(ls) == Concat(DropLastOne(ls)) \o Newline

\* fix.py:41: what print("".join(lines[:-2])) writes; print ends it with a newline
Printed(ls) == Concat(DropLastTwo(ls)) \o Newline

\* fix.py:7-14: the first loop on a whole recording; lines[i+1] is still as
\* loaded when lines[i] is rewritten
FirstScan(ls) ==
  [k \in 1..Len(ls) |->
     FirstScanLine(ls[k], k < Len(ls), IF k < Len(ls) THEN ls[k + 1] ELSE <<>>)]

\* fix.py:17-18: the second loop on a whole recording
Colorize(ls) == [k \in 1..Len(ls) |-> ColorizeLine(ls[k])]

\* fix.py:7-18: both prompt loops
PromptScans(ls) == Colorize(FirstScan(ls))

\* the value None of package_row
NoneRow == [ok |-> FALSE, kind |-> "None", val |-> <<>>]

(***************************************************************************)
(* The recordings the script is run on.                                    *)
(***************************************************************************)
\* the longest recording of the collapse runs, of the prompt runs and of the
\* runs on malformed package lines
MaxLines == 4
MaxPromptLines == 3
MaxFormatLines == 3

SeqsUpTo(S, n) == UNION {[1..k -> S] : k \in 0..n}

\* the event record ["o","",payload] as open(...).readlines() returns it
Wrap(payload) ==
  <<"[", "\"", "o", "\"", ",", "\"", "\"", ",", "\"">> \o payload \o <<"\"", "]", "LF">>

Digits == <<"1", "2", "3", "4", "5", "6", "7", "8", "9">>

\* entry j of the k-entry package record
PkgEntry(k, j) == Marker \o <<Digits[k], Digits[j]>>

\* the record announcing k packages
PkgLine(k) == Wrap(Join([j \in 1..k |-> PkgEntry(k, j)], EscNewline))

\* a package line that is no JSON, one that is an array of one element, and
\* one that is a JSON string
BadJsonLine == Marker \o <<"x", "LF">>
ShortListLine == <<"[", "\"">> \o Marker \o <<"x", "\"", "]", "LF">>
StringLine == <<"\"">> \o Marker \o <<"x", "\"", "LF">>

\* ["#","","\r\n"]: a bare newline event on channel "#"
HashNewlineLine ==
  <<"[", "\"", "#", "\"", ",", "\"", "\"", ",", "\"">> \o EscNewline \o <<"\"", "]", "LF">>

PromptLines ==
  { Wrap(Prompt),
    Wrap(<<"$", "$", " ", " ">> \o Prompt),
    Wrap(Prompt \o EscNewline),
    Wrap(EscNewline),
    Wrap(<<"#">>),
    HashNewlineLine,
    Wrap(<<"x">>),
    PkgLine(1) }

CollapseLines == { Wrap(<<"x">>), PkgLine(1), PkgLine(2), StringLine }

FormatLines == { Wrap(<<"x">>), PkgLine(1), BadJsonLine, ShortListLine, StringLine }

(***************************************************************************)
(* The run of the script.                                                  *)
(***************************************************************************)
VARIABLES
  loaded,       \* fix.py:6   what readlines() returned (never assigned again)
  lines,        \* fix.py:6   lines
  orig,         \* for each element of lines, its index in loaded
  i,            \* fix.py:7,17,24,38   the loop variable i (1-based)
  packages,     \* fix.py:21  packages
  package_row,  \* fix.py:22  package_row
  package_del,  \* fix.py:23  package_del (1-based indices)
  pending,      \* fix.py:38  what the iterator reversed(package_del[1:]) still holds
  out,          \* fix.py:41  the text written to standard output
  exc,          \* the exception that ended the run, "None" while there is none
  pc            \* the statement the script is at

vars == <<loaded, lines, orig, i, packages, package_row, package_del, pending, out, exc, pc>>

InitWith(S, n) ==
  /\ loaded \in SeqsUpTo(S, n)
  /\ lines = loaded
  /\ orig = [k \in 1..Len(loaded) |-> k]
  /\ i = 1
  /\ packages = <<>>
  /\ package_row = NoneRow
  /\ package_del = <<>>
  /\ pending = <<>>
  /\ out = <<>>
  /\ exc = "None"
  /\ pc = "scan"

Init == InitWith(CollapseLines, MaxLines)

InitPrompt == InitWith(PromptLines, MaxPromptLines)

InitFormat == InitWith(FormatLines, MaxFormatLines)

\* fix.py:7-14, one iteration
FirstScanStep ==
  /\ pc = "scan"
  /\ i <= Len(lines)
  /\ lines' = [lines EXCEPT ![i] =
       FirstScanLine(lines[i], i < Len(lines),
                     IF i < Len(lines) THEN lines[i + 1] ELSE <<>>)]
  /\ i' = i + 1
  /\ UNCHANGED <<loaded, orig, packages, package_row, package_del, pending, out, exc, pc>>

\* fix.py:7 -> 17, the first loop is over
FirstScanExit ==
  /\ pc = "scan"
  /\ i > Len(lines)
  /\ pc' = "colorize"
  /\ i' = 1
  /\ UNCHANGED <<loaded, lines, orig, packages, package_row, package_del, pending, out, exc>>

\* fix.py:17-18, one iteration
ColorizeStep ==
  /\ pc = "colorize"
  /\ i <= Len(lines)
  /\ lines' = [lines EXCEPT ![i] = ColorizeLine(lines[i])]
  /\ i' = i + 1
  /\ UNCHANGED <<loaded, orig, packages, package_row, package_del, pending, out, exc, pc>>

\* fix.py:17 -> 21-24, the second loop is over
ColorizeExit ==
  /\ pc = "colorize"
  /\ i > Len(lines)
  /\ pc' = "ellipsize"
  /\ i' = 1
  /\ UNCHANGED <<loaded, lines, orig, packages, package_row, package_del, pending, out, exc>>

\* fix.py:24-25, an iteration on a line without the marker
EllipsizeSkip ==
  /\ pc = "ellipsize"
  /\ i <= Len(lines)
  /\ ~IsPackageLine(lines[i])
  /\ i' = i + 1
  /\ UNCHANGED <<loaded, lines, orig, packages, package_row, package_del, pending, out, exc, pc>>

\* fix.py:24-31, an iteration on a package line: json.loads or data[2]
\* raises and ends the run, or the line is recorded
EllipsizeMatch ==
  /\ pc = "ellipsize"
  /\ i <= Len(lines)
  /\ IsPackageLine(lines[i])
  /\ IF Raises(lines[i]) # "None"
     THEN /\ exc' = Raises(lines[i])
          /\ pc' = "error"
          /\ UNCHANGED <<i, packages, package_row, package_del>>
     ELSE /\ packages' = packages \o Split(Element2(Loads(lines[i])), CRLF)
          /\ package_row' = IF package_row.kind = "None" THEN Loads(lines[i])
                                                          ELSE package_row
          /\ package_del' = Append(package_del, i)
          /\ i' = i + 1
          /\ UNCHANGED <<exc, pc>>
  /\ UNCHANGED <<loaded, lines, orig, pending, out>>

\* fix.py:24 -> 33, the third loop is over
EllipsizeExit ==
  /\ pc = "ellipsize"
  /\ i > Len(lines)
  /\ pc' = "merge"
  /\ UNCHANGED <<loaded, lines, orig, i, packages, package_row, package_del, pending, out, exc>>

\* fix.py:33 false, then fix.py:38 builds the iterator
MergeSkip ==
  /\ pc = "merge"
  /\ ~Truthy(package_row)
  /\ pending' = DeleteOrder(package_del)
  /\ pc' = "delete"
  /\ UNCHANGED <<loaded, lines, orig, i, packages, package_row, package_del, out, exc>>

\* fix.py:33-36, then fix.py:38 builds the iterator; when package_row is a
\* str the item assignment of fix.py:35 raises TypeError
MergeRewrite ==
  /\ pc = "merge"
  /\ Truthy(package_row)
  /\ packages' = Ellipsize(packages)
  /\ IF package_row.kind = "list"
     THEN /\ package_row' = [package_row EXCEPT !.val[3] = Join(packages', CRLF)]
          /\ lines' = [lines EXCEPT ![package_del[1]] = Dumps(package_row') \o Newline]
          /\ pending' = DeleteOrder(package_del)
          /\ pc' = "delete"
          /\ UNCHANGED exc
     ELSE /\ exc' = "TypeError"
          /\ pc' = "error"
          /\ UNCHANGED <<lines, package_row, pending>>
  /\ UNCHANGED <<loaded, orig, i, package_del, out>>

\* fix.py:38-39, one iteration: del lines[i] raises IndexError out of range
DeleteStep ==
  /\ pc = "delete"
  /\ pending # <<>>
  /\ i' = Head(pending)
  /\ pending' = Tail(pending)
  /\ IF Head(pending) <= Len(lines)
     THEN /\ lines' = DeleteAt(lines, Head(pending))
          /\ orig' = DeleteAt(orig, Head(pending))
          /\ UNCHANGED <<exc, pc>>
     ELSE /\ exc' = "IndexError"
          /\ pc' = "error"
          /\ UNCHANGED <<lines, orig>>
  /\ UNCHANGED <<loaded, packages, package_row, package_del, out>>

\* fix.py:38 -> 41, the last loop is over
DeleteExit ==
  /\ pc = "delete"
  /\ pending = <<>>
  /\ pc' = "emit"
  /\ UNCHANGED <<loaded, lines, orig, i, packages, package_row, package_del, pending, out, exc>>

\* fix.py:41
Emit ==
  /\ pc = "emit"
  /\ out' = Printed(lines)
  /\ pc' = "done"
  /\ UNCHANGED <<loaded, lines, orig, i, packages, package_row, package_del, pending, exc>>

Next ==
  \/ FirstScanStep
  \/ FirstScanExit
  \/ ColorizeStep
  \/ ColorizeExit
  \/ EllipsizeSkip
  \/ EllipsizeMatch
  \/ EllipsizeExit
  \/ MergeSkip
  \/ MergeRewrite
  \/ DeleteStep
  \/ DeleteExit
  \/ Emit

Spec == Init /\ [][Next]_vars

SpecPrompt == InitPrompt /\ [][Next]_vars

SpecFormat == InitFormat /\ [][Next]_vars

(***************************************************************************)
(* What the properties below read off a state.                             *)
(***************************************************************************)
\* the lines as the collapse scan reads them
Recolored == PromptScans(loaded)

\* the lines of the text on standard output, without the newline print adds
OutLines ==
  LET parts == Split(out, Newline)
  IN [j \in 1..(Len(parts) - 2) |-> parts[j] \o Newline]

\* the indices (in loaded) of the package lines the scan recorded after the first
LaterMatches == {package_del[j] : j \in 2..Len(package_del)}

\* line k has none of the patterns the script looks for
Plain(l) ==
  /\ ~Contains(l, PromptEnd)
  /\ ~Contains(l, EscNewline)
  /\ ~Contains(l, Marker)
  /\ ~Contains(l, Prompt)

\* the successor of line k of the loaded recording exists and holds pat
NextHas(k, pat) == k < Len(loaded) /\ Contains(loaded[k + 1], pat)

\* the first loop rewrites the prompts of line k: removes them, dims them
Removed(k) == Contains(loaded[k], PromptEnd) /\ NextHas(k, BareNewline)
Dimmed(k) == Contains(loaded[k], PromptEnd) /\ NextHas(k, HashStr)

\* fix.py:14 on one line
Annotated(l) == Replace(l, EscNewline, EscNewlineReset)

\* what the first loop leaves of line k, by the cases of its successor
C1_Expected(k) ==
  CASE Removed(k) /\ Dimmed(k) -> Replace(Replace(loaded[k], Prompt, <<>>), Prompt, Dim)
    [] Removed(k) /\ ~Dimmed(k) -> Replace(loaded[k], Prompt, <<>>)
    [] ~Removed(k) /\ Dimmed(k) -> Replace(loaded[k], Prompt, Dim)
    [] OTHER -> loaded[k]

(***************************************************************************)
(* C1  First loop: the prompts of line i are rewritten only when the line  *)
(* holds '$ "]' and has a successor; the successor is read as loaded;      *)
(* a bare-newline successor removes every "$ ", a "#" successor replaces   *)
(* every "$ " left by the dim sequence; otherwise no "$ " changes.  The    *)
(* lines the loop has not reached are as loaded.                           *)
(***************************************************************************)
C1_TargetedRewrite ==
  pc = "scan" =>
    /\ Len(lines) = Len(loaded)
    /\ \A k \in 1..Len(lines) :
         IF k < i THEN lines[k] = Annotated(C1_Expected(k))
                  ELSE lines[k] = loaded[k]

\* the loop has passed a prompt line whose successor is a bare newline on channel "#"
C1_Witness ==
  /\ pc = "scan"
  /\ \E k \in 1..(i - 1) : Removed(k) /\ Dimmed(k) /\ lines[k] # loaded[k]

(***************************************************************************)
(* C2  Pass order.  The claim as stated: when the second loop starts,      *)
(* every line the first loop rewrote holds no "$ ", so the second loop     *)
(* leaves it unchanged; every other line has each "$ " recolored; after    *)
(* the second loop no line holds "$ ".                                     *)
(***************************************************************************)
C2_AsClaimed ==
  /\ pc = "colorize" =>
       \A k \in i..Len(lines) :
         (Removed(k) \/ Dimmed(k)) => ~Contains(lines[k], Prompt)
  /\ pc = "ellipsize" =>
       \A k \in 1..Len(lines) :
         /\ (Removed(k) \/ Dimmed(k)) => lines[k] = FirstScan(loaded)[k]
         /\ ~(Removed(k) \/ Dimmed(k)) =>
              lines[k] = Replace(FirstScan(loaded)[k], Prompt, Blue)
         /\ ~Contains(lines[k], Prompt)

(***************************************************************************)
(* C2 (amended)  The second loop starts after the first has finished on    *)
(* all lines.  At that moment a dimmed line holds no "$ "; a line whose    *)
(* prompts were removed holds "$ " only where the removal brought a "$"    *)
(* next to a blank (the loaded line holds "$$ ").  The second loop         *)
(* recolors every "$ " of every line, so it leaves the lines without "$ "  *)
(* unchanged, and after it no line holds "$ ".                             *)
(***************************************************************************)
C2_PassOrder ==
  /\ pc = "colorize" =>
       \A k \in 1..Len(lines) :
         /\ k >= i => lines[k] = FirstScan(loaded)[k]
         /\ k >= i /\ Dimmed(k) => ~Contains(lines[k], Prompt)
         /\ k >= i /\ Removed(k) /\ Contains(lines[k], Prompt) =>
              ~Dimmed(k) /\ Contains(loaded[k], <<"$", "$", " ">>)
         /\ k < i => lines[k] = Replace(FirstScan(loaded)[k], Prompt, Blue)
  /\ pc = "ellipsize" =>
       \A k \in 1..Len(lines) :
         /\ lines[k] = Replace(FirstScan(loaded)[k], Prompt, Blue)
         /\ ~Contains(FirstScan(loaded)[k], Prompt) => lines[k] = FirstScan(loaded)[k]
         /\ ~Contains(lines[k], Prompt)

\* both loops are over, and a line whose prompts the first loop removed was
\* recolored by the second
C2_Witness ==
  /\ pc = "ellipsize"
  /\ \E k \in 1..Len(lines) :
       /\ Removed(k)
       /\ Contains(FirstScan(loaded)[k], Prompt)
       /\ Contains(lines[k], Blue)

(***************************************************************************)
(* C8  Idempotence as claimed: the two prompt loops applied to their own   *)
(* output give that output.                                                *)
(***************************************************************************)
C8_AsClaimed ==
  (pc = "ellipsize" /\ i = 1) => PromptScans(lines) = lines

(***************************************************************************)
(* C8 (amended)  The output of the two loops holds no "$ ", so a second    *)
(* run rewrites no prompt; it appends one more reset after every \r\n:     *)
(* the second run's result is the first's with every \r\n annotated        *)
(* again, and equals it exactly when no line of it holds \r\n.             *)
(***************************************************************************)
C8_SecondRun ==
  (pc = "ellipsize" /\ i = 1) =>
    /\ \A k \in 1..Len(lines) : ~Contains(lines[k], Prompt)
    /\ PromptScans(lines) = [k \in 1..Len(lines) |-> Annotated(lines[k])]
    /\ (PromptScans(lines) = lines) <=>
         (\A k \in 1..Len(lines) : ~Contains(lines[k], EscNewline))

\* the first run recolored a prompt and annotated a newline, the second changes a line
C8_Witness ==
  /\ pc = "ellipsize" /\ i = 1
  /\ \E k \in 1..Len(lines) : Contains(lines[k], Blue)
  /\ \E k \in 1..Len(lines) : Contains(lines[k], EscNewlineReset)
  /\ PromptScans(lines) # lines

\* the entries of the package lines of ls from line k on; the entries of the
\* merged record as it stands in lines; the head + "..." + tail shape
RECURSIVE C3_Entries(_, _)
C3_Entries(ls, k) ==
  IF k > Len(ls) THEN <<>>
  ELSE (IF Contains(ls[k], Marker)
        THEN Split(Element2(Loads(ls[k])), CRLF)
        ELSE <<>>) \o C3_Entries(ls, k + 1)

C3_Merged == Split(Loads(lines[package_del[1]]).val[3], CRLF)

C3_Shape(L, T) ==
  /\ Len(L) >= 3 =>
       /\ Len(T) = 7
       /\ \A j \in 1..3 : T[j] = L[j] /\ T[4 + j] = L[Len(L) - 3 + j]
       /\ T[4] = Ellipsis
  /\ Len(L) < 3 =>
       /\ Len(T) = 2 * Len(L) + 1
       /\ \A j \in 1..Len(L) : T[j] = L[j] /\ T[Len(L) + 1 + j] = L[j]
       /\ T[Len(L) + 1] = Ellipsis
  /\ Len(L) >= 6 => Len(T) = 7
  /\ Len(L) = 2 => T = <<L[1], L[2], Ellipsis, L[1], L[2]>>

(***************************************************************************)
(* C3  Truncation.  L is the concatenation, in line order, of the CR LF    *)
(* segments of element 2 of every package line.  Element 2 of the merged   *)
(* record is the CR LF join of the first 3 of L, "...", the last 3 of L,   *)
(* with no length guard: 7 entries when L has 6 or more, and a sole        *)
(* record with the entries a, b gives a, b, "...", a, b.                   *)
(***************************************************************************)
C3_Truncation ==
  (pc \in {"delete", "emit", "done"} /\ package_del # <<>>) =>
    LET L == C3_Entries(Recolored, 1)
        T == C3_Merged
    IN packages = T /\ C3_Shape(L, T)

\* a run that merged seven or more entries, so that one was dropped
C3_Witness ==
  /\ pc = "done"
  /\ package_del # <<>>
  /\ Len(C3_Entries(Recolored, 1)) >= 7

(***************************************************************************)
(* C4  As claimed: whenever the recording holds a package line and the run *)
(* ends without error, the output holds exactly one line that comes from   *)
(* the first package line and none that comes from a later one.            *)
(***************************************************************************)
C4_AsClaimed ==
  (pc = "done" /\ package_del # <<>>) =>
    /\ Cardinality({j \in 1..Len(OutLines) : orig[j] = package_del[1]}) = 1
    /\ \A j \in 1..Len(OutLines) : orig[j] \notin LaterMatches

(***************************************************************************)
(* C4 (amended)  The output holds no line that comes from a later package  *)
(* line and at most one (the merged record) that comes from the first: it  *)
(* holds that one exactly when the merged record is not among the last two *)
(* lines of the collapsed sequence, which the emitter drops.               *)
(***************************************************************************)
C4_OneSummary ==
  (pc = "done" /\ package_del # <<>>) =>
    /\ \A j \in 1..Len(OutLines) : orig[j] \notin LaterMatches
    /\ Cardinality({j \in 1..Len(OutLines) : orig[j] = package_del[1]})
         = (IF package_del[1] <= Len(lines) - 2 THEN 1 ELSE 0)
    /\ \A j \in 1..Len(OutLines) :
         orig[j] = package_del[1] => OutLines[j] = Dumps(package_row) \o Newline

\* a run that removed a later package line and printed the merged record
C4_Witness ==
  /\ pc = "done"
  /\ Len(package_del) >= 2
  /\ \E j \in 1..Len(OutLines) : orig[j] = package_del[1]

C6_Bad(l) ==
  /\ Contains(l, Marker)
  /\ \/ ~Loads(l).ok
     \/ Loads(l).kind = "list" /\ Len(Loads(l).val) < 3

C6_BadLines ==
  LET after == Recolored
  IN {k \in 1..Len(loaded) : C6_Bad(after[k])}

(***************************************************************************)
(* C6  A package line (as it stands after the prompt loops) that is no     *)
(* JSON, or an array of fewer than 3 elements, ends the run with an error  *)
(* at that line: the scan does not pass it, the merge, the deletions and   *)
(* the emitter are never reached and nothing is written.                   *)
(***************************************************************************)
C6_Fatal ==
  LET bad == C6_BadLines
  IN bad # {} =>
       /\ out = <<>>
       /\ pc \in {"scan", "colorize", "ellipsize", "error"}
       /\ pc = "ellipsize" => i <= Least(bad)
       /\ pc = "error" =>
            /\ i = Least(bad)
            /\ exc = (IF Loads(lines[i]).ok THEN "IndexError" ELSE "JSONDecodeError")
            /\ lines = Recolored

\* a run that ended at a bad package line after it had recorded a good one
C6_Witness ==
  /\ pc = "error"
  /\ package_del # <<>>
  /\ i \in C6_BadLines

\* the package lines after the prompt loops, and how many of them are deleted
C7_Matches ==
  LET after == Recolored
  IN {k \in 1..Len(loaded) : Contains(after[k], Marker)}

C7_Deleted == IF C7_Matches = {} THEN 0 ELSE Cardinality(C7_Matches) - 1

C9_AsClaimed ==
  pc = "done" =>
    \A k \in 1..Len(loaded) :
      Plain(loaded[k]) =>
        \E j \in 1..Len(OutLines) : orig[j] = k /\ OutLines[j] = loaded[k]

(***************************************************************************)
(* C9 (amended)  A loaded line with none of the patterns is never changed  *)
(* and never deleted, whatever its neighbours; it appears in the output    *)
(* with its text unless it is one of the last two lines of the collapsed   *)
(* sequence, which the emitter drops.                                      *)
(***************************************************************************)
C9_Frame ==
  /\ \A k \in 1..Len(loaded) :
       Plain(loaded[k]) => \E j \in 1..Len(lines) : orig[j] = k /\ lines[j] = loaded[k]
  /\ pc = "done" =>
       \A j \in 1..Len(lines) :
         Plain(loaded[orig[j]]) =>
           IF j <= Len(lines) - 2
           THEN j <= Len(OutLines) /\ OutLines[j] = loaded[orig[j]]
           ELSE j > Len(OutLines)

\* a plain line was printed whose successor in the recording is not plain
C9_Witness ==
  /\ pc = "done"
  /\ \E j \in 1..Len(OutLines) :
       /\ Plain(loaded[orig[j]])
       /\ OutLines[j] = loaded[orig[j]]
       /\ orig[j] < Len(loaded)
       /\ ~Plain(loaded[orig[j] + 1])

(***************************************************************************)
(* C10  Deletion.  The recorded indices p1 < ... < pm are those of the     *)
(* package lines.  After the deletions exactly the lines that stood at     *)
(* p2..pm are gone, the merged record stands at p1, and every other line   *)
(* keeps its text and its order; without a package line nothing changes.   *)
(***************************************************************************)
C10_Deletion ==
  /\ pc \in {"merge", "delete", "emit", "done"} =>
       /\ {package_del[j] : j \in 1..Len(package_del)} = C7_Matches
       /\ \A j \in 1..(Len(package_del) - 1) : package_del[j] < package_del[j + 1]
  /\ pc \in {"emit", "done"} =>
       /\ {orig[j] : j \in 1..Len(orig)} = (1..Len(loaded)) \ LaterMatches
       /\ \A j \in 1..(Len(orig) - 1) : orig[j] < orig[j + 1]
       /\ Len(lines) = Len(orig)
       /\ \A j \in 1..Len(lines) :
            orig[j] \notin C7_Matches => lines[j] = Recolored[orig[j]]
       /\ package_del # <<>> =>
            /\ orig[package_del[1]] = package_del[1]
            /\ lines[package_del[1]] = Dumps(package_row) \o Newline
       /\ package_del = <<>> => lines = Recolored

\* two deletions are done and a line that is no package line stood behind the first of them
C10_Witness ==
  /\ pc = "emit"
  /\ Len(package_del) >= 3
  /\ \E j \in 1..Len(orig) : orig[j] > package_del[2] /\ orig[j] \notin C7_Matches

=============================================================================
